---------------------------- MODULE Spec2Model ----------------------------
(***************************************************************************)
(* A model of cgrulesengd.c, the cgroup rules engine daemon: main(),       *)
(* cgre_start_daemon(), the netlink receive loop of                        *)
(* cgre_create_netlink_socket_process_msg(), cgre_handle_msg(),            *)
(* cgre_process_event() and the two signal handlers.                       *)
(*                                                                         *)
(* The main thread is a state machine over pc; the kernel (datagrams       *)
(* arriving on the socket), the signals, /proc/<pid>/status, calloc and    *)
(* the policy engine (libcgroup) are the environment, drawn from small     *)
(* sets.  The variables arrived, handled, requests, lastRecv, lookups,     *)
(* calls and prevBatch are history variables recording what happened; the  *)
(* code never reads them.  arrived, handled and requests cover the whole   *)
(* run and name each frame by the arrival it came in and the offset it was *)
(* read at; lastRecv, lookups and calls hold the details of the current    *)
(* batch and start afresh at each receive; prevBatch holds those of the    *)
(* batch before when the same buffer is received twice in a row.           *)
(***************************************************************************)
EXTENDS Integers, Sequences, FiniteSets, TLC

(***************************************************************************)
(* Bounds of the model.                                                    *)
(***************************************************************************)
\* datagrams / receive results the kernel delivers in one run
MaxArrivals == 2
\* SIGUSR2 deliveries in one run
MaxReloads == 1
\* iterations of the frame loop on one no-op frame that are told apart: they
\* are counted modulo MaxSpins + 1
MaxSpins == 2

(***************************************************************************)
(* Program constants.                                                      *)
(***************************************************************************)
\* size_t recv_len is unsigned: values are kept modulo SizeMod.  The real
\* width is 2^64; 2^30 keeps every value of the model inside TLC's integers.
SizeMod == 1073741824
\* errno values
ENOBUFS == 105
ENOMEM == 12
\* sizeof(struct nlmsghdr), NLMSG_HDRLEN
NlHdrLen == 16
\* nlmsg_type values of linux/netlink.h
NLMSG_NOOP == 1
NLMSG_ERROR == 2
NLMSG_DONE == 3
NLMSG_OVERRUN == 4
NLMSG_MIN_TYPE == 16
\* proc_event.what values of linux/cn_proc.h
PROC_EVENT_NONE == 0
PROC_EVENT_FORK == 1
PROC_EVENT_UID == 4
PROC_EVENT_GID == 64
\* libcgroup.h
CGFLAG_USECACHE == 1
\* sizeof(struct cn_msg); the bytes of struct proc_event up to and including
\* event_data.id.e; those up to and including what
CnMsgLen == 20
ProcEventLen == 32
WhatLen == 4
\* the exit status of a process is the low byte of main's return value
ExitModulus == 256
EXIT_SUCCESS == 0

(***************************************************************************)
(* Text: a string is a sequence of one-character strings.                  *)
(***************************************************************************)
Digits == <<"0", "1", "2", "3", "4", "5", "6", "7", "8", "9">>

IsDigit(c) == \E i \in 1..10 : Digits[i] = c

DigitVal(c) == (CHOOSE i \in 1..10 : Digits[i] = c) - 1

IsSpace(c) == c \in {" ", "\t", "\n"}

\* the suffix of s from (0-based) position n on: the C expression s + n
Skip(s, n) == IF n >= Len(s) THEN << >> ELSE SubSeq(s, n + 1, Len(s))

\* strncmp(s, t, n) == 0
StrNEq(s, t, n) ==
    \A i \in 1..n :
        /\ i <= Len(s) <=> i <= Len(t)
        /\ i <= Len(s) => s[i] = t[i]

RECURSIVE SkipSpaces(_)
SkipSpaces(s) ==
    IF s # << >> /\ IsSpace(Head(s)) THEN SkipSpaces(Tail(s)) ELSE s

\* the decimal digits at the head of s, read onto the value acc:
\* <<value, rest of s>>
RECURSIVE ReadDigits(_, _)
ReadDigits(s, acc) ==
    IF s # << >> /\ IsDigit(Head(s))
    THEN ReadDigits(Tail(s), 10 * acc + DigitVal(Head(s)))
    ELSE <<acc, s>>

\* one %d conversion of sscanf: <<matched, value, rest>>
ScanInt(s) ==
    LET t == SkipSpaces(s)
        neg == t # << >> /\ Head(t) = "-"
        u == IF neg THEN Tail(t) ELSE t
        r == ReadDigits(u, 0)
    IN  IF u # << >> /\ IsDigit(Head(u))
        THEN <<TRUE, IF neg THEN 0 - r[1] ELSE r[1], r[2]>>
        ELSE <<FALSE, 0, s>>

\* sscanf(s, "%d%d%d%d", ...): the values assigned, in order; the scan stops
\* at the first conversion that fails, leaving the later targets untouched
RECURSIVE ScanInts(_, _)
ScanInts(s, n) ==
    IF n = 0 THEN << >>
    ELSE LET r == ScanInt(s)
         IN  IF r[1] THEN <<r[2]>> \o ScanInts(r[3], n - 1) ELSE << >>

(***************************************************************************)
(* The process status source: /proc/<pid>/status as a sequence of lines,   *)
(* or NoRecord when fopen() fails (the process has already exited).        *)
(***************************************************************************)
NoRecord == [found |-> FALSE, lines |-> << >>]

NameLine == <<"N", "a", "m", "e", ":", "\t", "s", "h", "\n">>

UidLine == <<"U", "i", "d", ":", "\t", "5", "0", "0", "\t", "6", "0", "0",
             "\t", "5", "0", "0", "\t", "5", "0", "0", "\n">>

GidLine == <<"G", "i", "d", ":", " ", "3", "0", " ", "4", "0", " ", "3", "0",
             " ", "3", "0", "\n">>

UidLabel == <<"U", "i", "d", ":">>

GidLabel == <<"G", "i", "d", ":">>

\* a live process
StatusFull == [found |-> TRUE, lines |-> <<NameLine, UidLine, GidLine>>]

\* a record that opens but whose credential lines cannot be read (the process
\* exits between the open and the read)
StatusNoIds == [found |-> TRUE, lines |-> <<NameLine>>]

\* what fopen("/proc/<pid>/status") may find at the time of a lookup
ProcStatus == {NoRecord, StatusFull, StatusNoIds}

\* whether calloc(4096, 1) returns a buffer
AllocResults == {TRUE, FALSE}

\* the values an uninitialised uid_t/gid_t local may hold
GarbageIds == {0, 7}

\* return codes of cgroup_change_cgroup_uid_gid_flags()
PolicyCodes == {0 - 1, 0, 5}

(***************************************************************************)
(* cgre_process_event                                                      *)
(***************************************************************************)
\* the fgets loops: the first line of the record that starts with label
\* (0 when the loop reaches end-of-input)
FindLine(file, label) ==
    IF \E i \in 1..Len(file) : StrNEq(file[i], label, 4)
    THEN CHOOSE i \in 1..Len(file) :
            /\ StrNEq(file[i], label, 4)
            /\ \A j \in 1..(i - 1) : ~StrNEq(file[j], label, 4)
    ELSE 0

\* a mutant of ScanEffective: the real id, the first integer of the line
ScanReal(line, garbage) ==
    LET ints == ScanInts(Skip(line, 5), 4)
    IN  IF Len(ints) >= 1 THEN ints[1] ELSE garbage

\* sscanf(buf + 5, "%d%d%d%d", &r, &e, &s, &fs): the value e holds afterwards
ScanEffective(line, garbage) ==
    LET ints == ScanInts(Skip(line, 5), 4)
    IN  IF Len(ints) >= 2 THEN ints[2] ELSE garbage

\* the value of the local egid (euid) once the scan for label is over: the
\* local is assigned only when the label line is found
ScannedId(file, label, garbage) ==
    LET i == FindLine(file, label)
    IN  IF i = 0 THEN garbage ELSE ScanEffective(file[i], garbage)

\* a mutant of cgre_process_event: a request that fails is made again
ProcessEventRetry(ev, type, st, mem, garbage, code) ==
    LET q == [uid |-> ev.eid, gid |-> ev.eid, pid |-> ev.pid,
              flags |-> CGFLAG_USECACHE]
    IN  IF ~st.found \/ ~mem
        THEN [ret |-> 0, opens |-> 1, reqs |-> << >>]
        ELSE [ret |-> code, opens |-> 1,
              reqs |-> IF code = 0 THEN <<q>> ELSE <<q, q>>]

\* the result of cgre_process_event(ev, type) when the status record is st,
\* calloc yields mem, an unassigned local holds garbage and the policy engine
\* answers code: the return value, the number of fopen() calls and the calls
\* made to cgroup_change_cgroup_uid_gid_flags
cgre_process_event(ev, type, st, mem, garbage, code) ==
    IF ~st.found
    THEN [ret |-> 0, opens |-> 1, reqs |-> << >>]
    ELSE IF ~mem
    THEN [ret |-> ENOMEM, opens |-> 1, reqs |-> << >>]
    ELSE IF type = PROC_EVENT_UID
    THEN [ret |-> code, opens |-> 1,
          reqs |-> <<[uid |-> ev.eid,
                      gid |-> ScannedId(st.lines, GidLabel, garbage),
                      pid |-> ev.pid, flags |-> CGFLAG_USECACHE]>>]
    ELSE IF type = PROC_EVENT_GID
    THEN [ret |-> code, opens |-> 1,
          reqs |-> <<[uid |-> ScannedId(st.lines, UidLabel, garbage),
                      gid |-> ev.eid,
                      pid |-> ev.pid, flags |-> CGFLAG_USECACHE]>>]
    ELSE [ret |-> 0, opens |-> 1, reqs |-> << >>]

(***************************************************************************)
(* cgre_handle_msg                                                         *)
(***************************************************************************)
\* a mutant of cgre_handle_msg: every event kind is passed on as a UID event
HandleMsgAnyKind(ev, st, mem, garbage, code) ==
    cgre_process_event(ev, PROC_EVENT_UID, st, mem, garbage, code)

cgre_handle_msg(ev, st, mem, garbage, code) ==
    IF ev.what = PROC_EVENT_UID
    THEN cgre_process_event(ev, PROC_EVENT_UID, st, mem, garbage, code)
    ELSE IF ev.what = PROC_EVENT_GID
    THEN cgre_process_event(ev, PROC_EVENT_GID, st, mem, garbage, code)
    ELSE [ret |-> 0, opens |-> 0, reqs |-> << >>]

\* the bytes cgre_handle_msg reads, counted from the start of the frame: the
\* cn_msg behind the header and in its data the proc_event, up to the field
\* what for every event and up to event_data.id.e for a UID or GID event
DecoderReads(ev) ==
    NlHdrLen + CnMsgLen
        + (IF ev.what \in {PROC_EVENT_UID, PROC_EVENT_GID} THEN ProcEventLen
           ELSE WhatLen)

(***************************************************************************)
(* Netlink framing.  The receive buffer is the sequence of the frames the  *)
(* kernel wrote into it, each at its byte offset off; every other byte is  *)
(* zero (the buffer is cleared before each receive).                       *)
(***************************************************************************)
\* the length of a frame carrying one process event
EvLen == NlHdrLen + CnMsgLen + ProcEventLen

ZeroBuff == << >>

ZeroFrame(off) ==
    [off |-> off, type |-> 0, len |-> 0, what |-> PROC_EVENT_NONE,
     pid |-> 0, tgid |-> 0, rid |-> 0, eid |-> 0]

\* the struct nlmsghdr (and the event behind it) read at byte offset off
HeaderAt(b, off) ==
    IF \E i \in 1..Len(b) : b[i].off = off
    THEN b[CHOOSE i \in 1..Len(b) : b[i].off = off]
    ELSE ZeroFrame(off)

NLMSG_ALIGN(n) == ((n + 3) \div 4) * 4

\* a mutant of NLMSG_OK: the declared length is not held against the size of
\* a header
NlmsgOkNoMinimum(b, off, len) ==
    /\ len >= NlHdrLen
    /\ HeaderAt(b, off).len <= len

\* NLMSG_OK(nlh, len), all three comparisons unsigned
NLMSG_OK(b, off, len) ==
    /\ len >= NlHdrLen
    /\ HeaderAt(b, off).len >= NlHdrLen
    /\ HeaderAt(b, off).len <= len

\* a mutant of NextHdr: the cursor advances by the header only
NextHdrHeaderOnly(b, off) == off + NlHdrLen

\* a mutant of NextHdr: the cursor is not advanced
NextHdrStay(b, off) == off

\* NLMSG_NEXT(nlh, len): the new cursor ...
NextHdr(b, off) == off + NLMSG_ALIGN(HeaderAt(b, off).len)

\* ... and the new remaining length, a size_t
NextLen(b, off, len) == (len - NLMSG_ALIGN(HeaderAt(b, off).len)) % SizeMod

\* a mutant of Cleared: the buffer keeps the previous receive
ClearedNot(b) == b

\* memset(buff, 0, sizeof(buff)) at the head of each iteration
Cleared(b) == ZeroBuff

\* the two tests on recv_len after recvfrom(): which way the loop goes
RecvBranch(len, rv, err) ==
    IF len = ENOBUFS THEN "overflow"
    ELSE IF len < 1 THEN "retry"
    ELSE "process"

\* if (cgre_handle_msg(cn_hdr) < 0) goto close_and_exit
LoopAborts(r) == r < 0

\* if (nlh->nlmsg_type == NLMSG_DONE) break
BatchEnds(type) == type = NLMSG_DONE

(***************************************************************************)
(* What the kernel delivers to one recvfrom(): the return value, errno and *)
(* the frames written into the buffer.                                     *)
(***************************************************************************)
EINTR == 4

UidEv(off, type, len) ==
    [off |-> off, type |-> type, len |-> len, what |-> PROC_EVENT_UID,
     pid |-> 100, tgid |-> 100, rid |-> 1000, eid |-> 2000]

GidEv(off, type, len) ==
    [off |-> off, type |-> type, len |-> len, what |-> PROC_EVENT_GID,
     pid |-> 55, tgid |-> 55, rid |-> 10, eid |-> 20]

ForkEv(off, type, len) ==
    [off |-> off, type |-> type, len |-> len, what |-> PROC_EVENT_FORK,
     pid |-> 9, tgid |-> 9, rid |-> 11, eid |-> 11]

CtlFrame(off, type, len) ==
    [off |-> off, type |-> type, len |-> len, what |-> PROC_EVENT_NONE,
     pid |-> 0, tgid |-> 0, rid |-> 0, eid |-> 0]

Data(n, frames) == [rv |-> n, err |-> 0, frames |-> frames]

\* one event, as the process connector sends it (type NLMSG_DONE)
InUid == Data(EvLen, <<UidEv(0, NLMSG_DONE, EvLen)>>)
InFork == Data(EvLen, <<ForkEv(0, NLMSG_DONE, EvLen)>>)
\* two back-to-back frames of a normal type
InTwo == Data(2 * EvLen, <<UidEv(0, NLMSG_MIN_TYPE, EvLen),
                           GidEv(EvLen, NLMSG_MIN_TYPE, EvLen)>>)
\* two back-to-back frames of the done type
InTwoDone == Data(2 * EvLen, <<GidEv(0, NLMSG_DONE, EvLen),
                               UidEv(EvLen, NLMSG_DONE, EvLen)>>)
\* a datagram of exactly ENOBUFS bytes
InLen105 == Data(ENOBUFS, <<UidEv(0, NLMSG_DONE, ENOBUFS)>>)
\* a no-op frame, then an event
InNoop == Data(NlHdrLen + EvLen, <<CtlFrame(0, NLMSG_NOOP, NlHdrLen),
                                   UidEv(NlHdrLen, NLMSG_DONE, EvLen)>>)
\* an error frame, then an event
InError == Data(NlHdrLen + CnMsgLen + EvLen,
                <<CtlFrame(0, NLMSG_ERROR, NlHdrLen + CnMsgLen),
                  GidEv(NlHdrLen + CnMsgLen, NLMSG_DONE, EvLen)>>)
\* a frame whose declared length exceeds the bytes received
InShort == Data(EvLen - 4, <<UidEv(0, NLMSG_DONE, EvLen)>>)
\* a datagram of 18 bytes: one frame of a normal type that declares just
\* those 18 bytes, a header and two more, not a multiple of four
InStub == Data(NlHdrLen + 2, <<CtlFrame(0, NLMSG_MIN_TYPE, NlHdrLen + 2)>>)
\* the kernel's receive buffer overflowed: recvfrom() fails with ENOBUFS
InOverflow == [rv |-> 0 - 1, err |-> ENOBUFS, frames |-> << >>]
\* an empty datagram
InZero == [rv |-> 0, err |-> 0, frames |-> << >>]

Inputs == {InUid, InFork, InTwo, InTwoDone, InLen105, InNoop,
           InError, InShort, InStub, InOverflow, InZero}

(***************************************************************************)
(* State.                                                                  *)
(***************************************************************************)
VARIABLES
    pc,         \* where main's thread is
    ret,        \* main's local ret
    exitStatus, \* the exit status of the process, once it has exited
    logfile,    \* the global logfile: "null", "file" or "stdout"
    logCloses,  \* fclose(logfile) calls made
    handlers,   \* the signal handlers are installed
    sk_nl,      \* the netlink socket: "none", "open" or "closed"
    sockCloses, \* close(sk_nl) calls made
    chanFail,   \* history: the step of the channel set-up that failed
    termSeen,   \* history: cgre_catch_term has run
    arrived,    \* every result the kernel has delivered to recvfrom()
    eintr,      \* a signal handler ran while recvfrom() was blocked
    reloads,    \* cgroup_reload_cached_rules() calls made
    buff,       \* the receive buffer
    nlh,        \* the frame cursor, a byte offset into buff
    recv_len,   \* the remaining length
    spins,      \* iterations of the frame loop that did not move the cursor
                \* (modulo MaxSpins + 1)
    msgRet,     \* what cgre_handle_msg returned in the current batch, last
    lastRecv,   \* this batch: what recvfrom() returned and where it led
    handled,    \* history: the frames passed to cgre_handle_msg
    requests,   \* history: the frames a reassignment was requested for
    lookups,    \* this batch: the fopen() calls on status records
    calls,      \* this batch: the calls to cgroup_change_cgroup_uid_gid_flags
    prevBatch   \* history: the lookups and calls of the batch before this
                \* one, kept when this receive delivered the same buffer again
                \* and for as long as its lookups find what the first pass
                \* found

vars == <<pc, ret, exitStatus, logfile, logCloses, handlers, sk_nl,
          sockCloses, chanFail, termSeen, arrived, eintr, reloads, buff, nlh, recv_len,
          spins, msgRet, lastRecv, handled, requests, lookups, calls,
          prevBatch>>

procVars == <<logfile, handlers>>
ghostVars == <<chanFail, termSeen>>
loopVars == <<buff, nlh, recv_len, spins, msgRet>>
histVars == <<lastRecv, handled, requests, lookups, calls, prevBatch>>
envVars == <<arrived, eintr, reloads>>

\* prevBatch when the receive is not a replay of the one before it
NoBatch == [replay |-> FALSE, lookups |-> << >>, calls |-> << >>]

\* the sequence s begins with the sequence p
IsPrefix(p, s) == Len(p) <= Len(s) /\ SubSeq(s, 1, Len(p)) = p

\* lastRecv before the first receive
NoRecv == [src |-> 0, rv |-> 0, err |-> 0, way |-> "none", prevErr |-> 0]

Running == {"start", "signals", "socket", "bind", "send", "recv", "frame"}

Init ==
    /\ pc = "start"
    /\ ret = 0
    /\ exitStatus = 0
    /\ logfile = "null"
    /\ logCloses = 0
    /\ handlers = FALSE
    /\ sk_nl = "none"
    /\ sockCloses = 0
    /\ chanFail = "none"
    /\ termSeen = FALSE
    /\ arrived = << >>
    /\ eintr = FALSE
    /\ reloads = 0
    /\ buff = ZeroBuff
    /\ nlh = 0
    /\ recv_len = 0
    /\ spins = 0
    /\ msgRet = 0
    /\ lastRecv = NoRecv
    /\ handled = << >>
    /\ requests = << >>
    /\ lookups = << >>
    /\ calls = << >>
    /\ prevBatch = NoBatch

(***************************************************************************)
(* main and cgre_start_daemon                                              *)
(***************************************************************************)
\* the result of cgre_start_daemon(logp, daemon, logs) in the process that
\* goes on (the child of the fork in daemon mode): its return value and the
\* log sink it leaves in logfile
cgre_start_daemon(daemon, logs, forkOk, openOk, setsidOk, chdirOk) ==
    LET sink == IF logs /\ openOk THEN "file" ELSE "stdout"
    IN  IF daemon /\ ~forkOk THEN [ret |-> 1, logfile |-> "null"]
        ELSE IF ~daemon THEN [ret |-> 0, logfile |-> sink]
        ELSE IF ~setsidOk THEN [ret |-> 2, logfile |-> sink]
        ELSE IF ~chdirOk THEN [ret |-> 3, logfile |-> sink]
        ELSE [ret |-> 0, logfile |-> sink]

\* if ((ret = cgre_start_daemon(logp, daemon, logs)) < 0) goto finished
StartFailed(r) == r < 0

\* a mutant of ClosesLog: the default output is closed too
ClosesLogAlways(lf) == lf # "null"

\* if (logfile && logfile != stdout) fclose(logfile), in main and in
\* cgre_catch_term
ClosesLog(lf) == lf # "null" /\ lf # "stdout"

\* main's label finished: the log sink is closed and main returns r
Finish(r, lf) ==
    /\ pc' = "exited"
    /\ ret' = r
    /\ exitStatus' = r % ExitModulus
    /\ logCloses' = IF ClosesLog(lf) THEN logCloses + 1 ELSE logCloses

\* a mutant of CloseAndExit: the function returns without closing the socket
CloseAndExitLeaks ==
    /\ sk_nl' = sk_nl
    /\ sockCloses' = sockCloses
    /\ Finish(0 - 1, logfile)

\* the label close_and_exit of cgre_create_netlink_socket_process_msg, which
\* returns rc = -1 to main, which returns it
CloseAndExit ==
    /\ sk_nl' = "closed"
    /\ sockCloses' = sockCloses + 1
    /\ Finish(0 - 1, logfile)

StartDaemon ==
    /\ pc = "start"
    /\ \E daemon, logs, forkOk, openOk, setsidOk, chdirOk \in BOOLEAN :
         LET r == cgre_start_daemon(daemon, logs, forkOk, openOk, setsidOk,
                                    chdirOk)
         IN  /\ logfile' = r.logfile
             /\ IF StartFailed(r.ret)
                THEN Finish(r.ret, r.logfile)
                ELSE /\ pc' = "signals"
                     /\ ret' = r.ret
                     /\ UNCHANGED <<exitStatus, logCloses>>
    /\ UNCHANGED <<handlers, sk_nl, sockCloses, ghostVars>>
    /\ UNCHANGED <<envVars, loopVars, histVars>>

\* the three sigaction() calls, whose result is kept in ret, then the rules
\* are printed to logfile; writing to a null FILE* ends the process with a
\* fault
InstallHandlers ==
    /\ pc = "signals"
    /\ \E ok \in BOOLEAN :
         IF logfile = "null"
         THEN /\ pc' = "crashed"
              /\ handlers' = ok
              /\ UNCHANGED <<ret, exitStatus, logCloses>>
         ELSE IF ok
         THEN /\ pc' = "socket"
              /\ handlers' = TRUE
              /\ ret' = 0
              /\ UNCHANGED <<exitStatus, logCloses>>
         ELSE /\ handlers' = FALSE
              /\ Finish(0 - 1, logfile)
    /\ UNCHANGED <<logfile, sk_nl, sockCloses, ghostVars>>
    /\ UNCHANGED <<envVars, loopVars, histVars>>

(***************************************************************************)
(* cgre_create_netlink_socket_process_msg: the channel                     *)
(***************************************************************************)
CreateSocket ==
    /\ pc = "socket"
    /\ \E ok \in BOOLEAN :
         IF ok
         THEN /\ sk_nl' = "open"
              /\ pc' = "bind"
              /\ UNCHANGED <<ret, exitStatus, logCloses, chanFail>>
         ELSE /\ sk_nl' = sk_nl
              /\ chanFail' = "socket"
              /\ Finish(0 - 1, logfile)
    /\ UNCHANGED <<sockCloses, termSeen, procVars, envVars, loopVars,
                   histVars>>

\* a mutant of Bind: the result of bind() is not tested
BindUnchecked ==
    /\ pc = "bind"
    /\ \E ok \in BOOLEAN : chanFail' = IF ok THEN chanFail ELSE "bind"
    /\ pc' = "send"
    /\ UNCHANGED <<ret, exitStatus, logCloses, sk_nl, sockCloses, termSeen,
                   procVars, envVars, loopVars, histVars>>

Bind ==
    /\ pc = "bind"
    /\ \E ok \in BOOLEAN :
         IF ok
         THEN /\ pc' = "send"
              /\ UNCHANGED <<ret, exitStatus, logCloses, sk_nl, sockCloses,
                             chanFail>>
         ELSE /\ chanFail' = "bind"
              /\ CloseAndExit
    /\ UNCHANGED <<termSeen, procVars, envVars, loopVars, histVars>>

\* the subscribe message PROC_CN_MCAST_LISTEN
SendListen ==
    /\ pc = "send"
    /\ \E ok \in BOOLEAN :
         IF ok
         THEN /\ pc' = "recv"
              /\ UNCHANGED <<ret, exitStatus, logCloses, sk_nl, sockCloses,
                             chanFail>>
         ELSE /\ chanFail' = "send"
              /\ CloseAndExit
    /\ UNCHANGED <<termSeen, procVars, envVars, loopVars, histVars>>

(***************************************************************************)
(* The receive loop                                                        *)
(***************************************************************************)
\* one iteration of the for loop up to the while loop: the buffer is
\* cleared, recvfrom() returns rv (errno err) having written frames, and
\* the two tests on recv_len decide where the loop goes.  src is the place
\* of the result in arrived, 0 for an interrupted call; prevErr is the errno
\* of the receive before this one.
RecvStep(src, rv, err, frames) ==
    LET len == rv % SizeMod
        way == RecvBranch(len, rv, err)
    IN  /\ buff' = IF rv > 0 THEN frames ELSE Cleared(buff)
        /\ recv_len' = len
        /\ nlh' = 0
        /\ spins' = 0
        /\ msgRet' = 0
        /\ lookups' = << >>
        /\ calls' = << >>
        /\ pc' = IF way = "process" THEN "frame" ELSE "recv"
        /\ lastRecv' = [src |-> src, rv |-> rv, err |-> err, way |-> way,
                        prevErr |-> lastRecv.err]
        /\ prevBatch' = IF /\ src > 0
                           /\ lastRecv.src > 0
                           /\ lastRecv.way = "process"
                           /\ arrived[lastRecv.src].rv = rv
                           /\ arrived[lastRecv.src].frames = frames
                        THEN [replay |-> TRUE, lookups |-> lookups,
                              calls |-> calls]
                        ELSE NoBatch

\* a result arrives on the socket and the blocked recvfrom() returns it
Recv ==
    /\ pc = "recv"
    /\ ~eintr
    /\ Len(arrived) < MaxArrivals
    /\ \E in \in Inputs :
         /\ arrived' = Append(arrived, in)
         /\ RecvStep(Len(arrived) + 1, in.rv, in.err, in.frames)
    /\ UNCHANGED <<ret, exitStatus, logCloses, sk_nl, sockCloses, procVars,
                   ghostVars, eintr, reloads, handled, requests>>

\* recvfrom() was interrupted by a handler (sa_flags = 0: no restart) and
\* fails with EINTR; nothing has arrived
RecvInterrupted ==
    /\ pc = "recv"
    /\ eintr
    /\ RecvStep(0, 0 - 1, EINTR, << >>)
    /\ eintr' = FALSE
    /\ UNCHANGED <<ret, exitStatus, logCloses, sk_nl, sockCloses, procVars,
                   ghostVars, arrived, reloads, handled, requests>>

\* while (NLMSG_OK(nlh, recv_len)) fails: back to the for loop
BatchEnd ==
    /\ pc = "frame"
    /\ ~NLMSG_OK(buff, nlh, recv_len)
    /\ pc' = "recv"
    /\ UNCHANGED <<ret, exitStatus, logCloses, sk_nl, sockCloses, procVars,
                   ghostVars, envVars, loopVars, histVars>>

\* if (nlh->nlmsg_type == NLMSG_NOOP) continue: the while loop tests the
\* same frame again, with the same cursor and the same remaining length
NoopFrame ==
    /\ pc = "frame"
    /\ NLMSG_OK(buff, nlh, recv_len)
    /\ HeaderAt(buff, nlh).type = NLMSG_NOOP
    /\ spins' = (spins + 1) % (MaxSpins + 1)
    /\ UNCHANGED <<pc, ret, exitStatus, logCloses, sk_nl, sockCloses,
                   procVars, ghostVars, envVars, buff, nlh, recv_len, msgRet,
                   histVars>>

\* an error or overrun frame: break
ErrorFrame ==
    /\ pc = "frame"
    /\ NLMSG_OK(buff, nlh, recv_len)
    /\ HeaderAt(buff, nlh).type \in {NLMSG_ERROR, NLMSG_OVERRUN}
    /\ pc' = "recv"
    /\ UNCHANGED <<ret, exitStatus, logCloses, sk_nl, sockCloses, procVars,
                   ghostVars, envVars, loopVars, histVars>>

\* any other frame goes to cgre_handle_msg; then the loop is left on a
\* negative result, the batch on a done frame, or the cursor moves on
HandleFrame ==
    /\ pc = "frame"
    /\ NLMSG_OK(buff, nlh, recv_len)
    /\ HeaderAt(buff, nlh).type \notin {NLMSG_NOOP, NLMSG_ERROR, NLMSG_OVERRUN}
    /\ \E st \in ProcStatus, mem \in AllocResults, garbage \in GarbageIds,
          code \in PolicyCodes :
         LET ev == HeaderAt(buff, nlh)
             r == cgre_handle_msg(ev, st, mem, garbage, code)
             tag == [src |-> lastRecv.src, off |-> nlh]
         IN  /\ handled' = Append(handled, tag)
             /\ lookups' = IF r.opens > 0
                           THEN Append(lookups, [off |-> nlh, pid |-> ev.pid,
                                                 st |-> st,
                                                 read |-> st.found /\ mem])
                           ELSE lookups
             /\ calls' = calls \o [i \in 1..Len(r.reqs) |->
                                      [off |-> nlh, st |-> st,
                                       call |-> r.reqs[i]]]
             /\ requests' = requests \o [i \in 1..Len(r.reqs) |-> tag]
             /\ msgRet' = r.ret
             /\ prevBatch' = IF IsPrefix(lookups', prevBatch.lookups)
                             THEN prevBatch
                             ELSE NoBatch
             /\ IF LoopAborts(r.ret)
                THEN /\ CloseAndExit
                     /\ UNCHANGED <<nlh, recv_len>>
                ELSE /\ UNCHANGED <<ret, exitStatus, logCloses, sk_nl,
                                    sockCloses>>
                     /\ IF BatchEnds(ev.type)
                        THEN /\ pc' = "recv"
                             /\ UNCHANGED <<nlh, recv_len>>
                        ELSE /\ pc' = "frame"
                             /\ nlh' = NextHdr(buff, nlh)
                             /\ recv_len' = NextLen(buff, nlh, recv_len)
    /\ UNCHANGED <<procVars, ghostVars, envVars, buff, spins, lastRecv>>

(***************************************************************************)
(* The environment: the kernel and the signals                             *)
(***************************************************************************)
\* a mutant of Reload: the handler also clears the receive buffer and closes
\* the log sink
ReloadClears ==
    /\ handlers
    /\ pc \in Running
    /\ reloads < MaxReloads
    /\ reloads' = reloads + 1
    /\ eintr' = eintr
    /\ buff' = ZeroBuff
    /\ logCloses' = logCloses + 1
    /\ UNCHANGED <<pc, ret, exitStatus, sk_nl, sockCloses, procVars,
                   ghostVars, arrived, nlh, recv_len, spins, msgRet,
                   histVars>>

\* SIGUSR2: cgre_flash_rules runs and returns to where main was.  A handler
\* that runs while recvfrom() is blocked makes the call fail; one that runs
\* just before the call is entered does not.
Reload ==
    /\ handlers
    /\ pc \in Running
    /\ reloads < MaxReloads
    /\ reloads' = reloads + 1
    /\ \E blocked \in BOOLEAN : eintr' = (eintr \/ (pc = "recv" /\ blocked))
    /\ UNCHANGED <<pc, ret, exitStatus, logCloses, sk_nl, sockCloses,
                   procVars, ghostVars, arrived, loopVars, histVars>>

\* SIGTERM or SIGINT: cgre_catch_term closes the log sink and exits
Terminate ==
    /\ handlers
    /\ pc \in Running
    /\ pc' = "terminated"
    /\ exitStatus' = EXIT_SUCCESS
    /\ logCloses' = IF ClosesLog(logfile) THEN logCloses + 1 ELSE logCloses
    /\ termSeen' = TRUE
    /\ UNCHANGED <<ret, sk_nl, sockCloses, chanFail, procVars, envVars,
                   loopVars, histVars>>

Next ==
    \/ StartDaemon
    \/ InstallHandlers
    \/ CreateSocket
    \/ Bind
    \/ SendListen
    \/ Recv
    \/ RecvInterrupted
    \/ BatchEnd
    \/ NoopFrame
    \/ ErrorFrame
    \/ HandleFrame
    \/ Reload
    \/ Terminate

Spec == Init /\ [][Next]_vars

\* the main thread is not starved: while a batch is being processed the frame
\* loop goes on running (recvfrom() may block for ever, the frame loop calls
\* nothing that waits)
FairSpec == Spec /\ WF_vars(BatchEnd \/ NoopFrame \/ ErrorFrame \/ HandleFrame)

(***************************************************************************)
(* Properties.  They are stated over the history variables and the         *)
(* arrivals themselves, not over what the code computed from them.         *)
(***************************************************************************)
\* the frame of arrival number src that starts at byte offset off
InputFrame(src, off) == HeaderAt(arrived[src].frames, off)

IsCredChange(f) == f.what \in {PROC_EVENT_UID, PROC_EVENT_GID}

\* the label the event does not carry: "Gid:" for a UID event, "Uid:" for a
\* GID event
MissingLabel(what) == IF what = PROC_EVENT_UID THEN GidLabel ELSE UidLabel

\* the status record st has a line that begins with label
HasLabel(st, label) ==
    \E i \in 1..Len(st.lines) :
        /\ Len(st.lines[i]) >= Len(label)
        /\ SubSeq(st.lines[i], 1, Len(label)) = label

\* the offsets of the frames of arrival src passed to cgre_handle_msg so
\* far, in the order they were passed
RECURSIVE OffsetsOf(_, _)
OffsetsOf(log, src) ==
    IF log = << >> THEN << >>
    ELSE IF Head(log).src = src
         THEN <<Head(log).off>> \o OffsetsOf(Tail(log), src)
         ELSE OffsetsOf(Tail(log), src)

\* tag a comes before tag b: an earlier arrival, or an earlier place in the
\* same one
TagBefore(a, b) == a.src < b.src \/ (a.src = b.src /\ a.off < b.off)

StrictlyOrdered(log) ==
    \A i, j \in 1..Len(log) : i < j => TagBefore(log[i], log[j])

\* the loop is in a batch that recvfrom() filled from an arrival
InBatch == lastRecv.src > 0

\* LISTENING has been entered: the loop is at recvfrom() or has been there
EnteredListening == pc = "recv" \/ lastRecv.way # "none"

\* C1 (as claimed): in the current batch a reassignment request is issued for
\* a frame passed to the decoder if and only if the frame is a UID or GID
\* change and its lookup succeeded: the status record was opened and read and
\* holds the line with the missing label.
C1_RequestIffLookupSucceeded ==
    InBatch =>
        \A o \in {handled[i].off : i \in {k \in 1..Len(handled) :
                                          handled[k].src = lastRecv.src}} :
            LET f == InputFrame(lastRecv.src, o)
            IN  (\E i \in 1..Len(calls) : calls[i].off = o)
                <=> /\ IsCredChange(f)
                    /\ \E i \in 1..Len(lookups) :
                          /\ lookups[i].off = o
                          /\ lookups[i].read
                          /\ HasLabel(lookups[i].st, MissingLabel(f.what))

\* C2 (as claimed): once LISTENING has been entered the daemon is listening,
\* processing, or was ended by a terminate interruption; whatever the last
\* event returned, the loop was not left.
C2_OnlyTerminateEndsLoop ==
    EnteredListening => pc \in {"recv", "frame", "terminated"}

\* a well-formed receive: one or more back-to-back frames from the start of
\* the buffer, each of a normal or done type, each with an aligned declared
\* length of at least a header, all inside the bytes received
WellFormed(in) ==
    /\ in.rv > 0
    /\ Len(in.frames) >= 1
    /\ in.frames[1].off = 0
    /\ \A i \in 1..Len(in.frames) :
          /\ in.frames[i].type = NLMSG_DONE \/ in.frames[i].type >= NLMSG_MIN_TYPE
          /\ in.frames[i].len >= NlHdrLen
          /\ in.frames[i].len % 4 = 0
          /\ in.frames[i].off + in.frames[i].len <= in.rv
          /\ i < Len(in.frames) =>
                in.frames[i + 1].off = in.frames[i].off + in.frames[i].len

\* the place of the first frame of done type, or of the last frame
FirstDone(frames) ==
    IF \E i \in 1..Len(frames) : frames[i].type = NLMSG_DONE
    THEN CHOOSE i \in 1..Len(frames) :
            /\ frames[i].type = NLMSG_DONE
            /\ \A j \in 1..(i - 1) : frames[j].type # NLMSG_DONE
    ELSE Len(frames)

C4_RequestFields ==
    InBatch =>
        \A i \in 1..Len(calls) :
            LET f == InputFrame(lastRecv.src, calls[i].off)
                c == calls[i].call
                labelled == HasLabel(calls[i].st, MissingLabel(f.what))
            IN  /\ c.pid = f.pid
                /\ c.flags = CGFLAG_USECACHE
                /\ f.what = PROC_EVENT_UID =>
                      (c.uid = f.eid /\ (labelled => c.gid = 40))
                /\ f.what = PROC_EVENT_GID =>
                      (c.gid = f.eid /\ (labelled => c.uid = 600))

\* C4 witness: the UID event (pid 100, euid 2000) gave the request
\* (2000, 40, 100) and the GID event (pid 55, egid 20) gave (600, 20, 55).
C4_Witness ==
    /\ Len(calls) = 2
    /\ calls[1].call = [uid |-> 2000, gid |-> 40, pid |-> 100,
                        flags |-> CGFLAG_USECACHE]
    /\ calls[2].call = [uid |-> 600, gid |-> 20, pid |-> 55,
                        flags |-> CGFLAG_USECACHE]

\* C5: no status record is opened and no request is issued for a frame
\* whose kind is neither UID_CHANGE nor GID_CHANGE.
C5_OtherKindIgnored ==
    /\ \A i \in 1..Len(requests) :
          IsCredChange(InputFrame(requests[i].src, requests[i].off))
    /\ InBatch =>
          /\ \A i \in 1..Len(lookups) :
                IsCredChange(InputFrame(lastRecv.src, lookups[i].off))
          /\ \A i \in 1..Len(calls) :
                IsCredChange(InputFrame(lastRecv.src, calls[i].off))

\* C5 witness: a fork event was passed to the decoder and the batch ended
\* with no lookup and no request.
C5_Witness ==
    /\ pc = "recv"
    /\ arrived = <<InFork>>
    /\ handled = <<[src |-> 1, off |-> 0]>>
    /\ lookups = << >>
    /\ calls = << >>
    /\ requests = << >>

\* a receive that reports the overflow condition: recvfrom() fails with
\* errno ENOBUFS
ReportsOverflow(r) == r.rv < 0 /\ r.err = ENOBUFS

\* C6 (as claimed): a receive that reports overflow hands no frame to the
\* decoder and does not end the loop, and the overflow branch is taken only
\* by receives that report overflow.
C6_OverflowBranch ==
    /\ ReportsOverflow(lastRecv) =>
          /\ pc \in {"recv", "frame", "terminated"}
          /\ \A i \in 1..Len(handled) : handled[i].src # lastRecv.src
          /\ lookups = << >> /\ calls = << >>
    /\ lastRecv.way = "overflow" => ReportsOverflow(lastRecv)

\* the frames of arrival src that report a credential change, as tags, in
\* buffer order
CredTags(src) ==
    LET frames == arrived[src].frames
        keep(f) == IsCredChange(f)
        sel == SelectSeq(frames, keep)
    IN  [i \in 1..Len(sel) |-> [src |-> src, off |-> sel[i].off]]

\* C7: the frames passed to the decoder and the requests issued are in
\* arrival order, by receive and then by place in the buffer, nothing twice;
\* every request is for a credential-change frame that arrived, and was
\* issued when that frame was handled, in the batch of its own receive (the
\* requests of the current receive are the calls of the current batch).
C7_RequestsInArrivalOrder ==
    /\ StrictlyOrdered(handled)
    /\ StrictlyOrdered(requests)
    /\ \A i \in 1..Len(requests) :
          /\ requests[i].src \in 1..Len(arrived)
          /\ \E k \in 1..Len(CredTags(requests[i].src)) :
                CredTags(requests[i].src)[k] = requests[i]
          /\ \E k \in 1..Len(handled) : handled[k] = requests[i]
    /\ InBatch =>
          OffsetsOf(requests, lastRecv.src)
              = [i \in 1..Len(calls) |-> calls[i].off]
    /\ \A i \in 1..Len(handled) : handled[i].src \in 1..Len(arrived)

\* C7 witness: two requests from one receive, in buffer order, then one from
\* the next receive.
C7_Witness ==
    /\ arrived = <<InTwo, InUid>>
    /\ requests = <<[src |-> 1, off |-> 0], [src |-> 1, off |-> EvLen],
                    [src |-> 2, off |-> 0]>>

\* C8: when socket(), bind() or the subscribe send() has failed, the process
\* has exited with a status other than zero and no receive was ever made.
C8_ChannelFailureExits ==
    chanFail # "none" =>
        /\ pc = "exited"
        /\ exitStatus # EXIT_SUCCESS
        /\ ~EnteredListening
        /\ arrived = << >>
        /\ handled = << >>

\* C8 witness: the subscribe send failed; the socket was closed and the
\* process exited with status 255.
C8_Witness ==
    /\ chanFail = "send"
    /\ pc = "exited"
    /\ sk_nl = "closed"
    /\ exitStatus = 255

\* an arrival that is one well-formed credential-change event
OneEvent(in) ==
    /\ WellFormed(in)
    /\ Len(in.frames) = 1
    /\ IsCredChange(in.frames[1])

\* C9: a receive interrupted by the reload handler hands nothing to the
\* decoder, opens no record, issues no request and does not end the loop;
\* the event that arrives next is passed to the decoder once, and no more
\* than once at any time.
C9_ReloadKeepsEvents ==
    /\ lastRecv.err = EINTR =>
          /\ pc \in {"recv", "frame", "terminated"}
          /\ \A i \in 1..Len(handled) : handled[i].src # lastRecv.src
          /\ lookups = << >> /\ calls = << >>
    /\ (InBatch /\ lastRecv.prevErr = EINTR
          /\ OneEvent(arrived[lastRecv.src])) =>
          /\ Len(OffsetsOf(handled, lastRecv.src)) <= 1
          /\ (pc = "recv" /\ lastRecv.way = "process")
                => OffsetsOf(handled, lastRecv.src) = <<0>>
    /\ \A i \in 1..Len(handled) : handled[i].src \in 1..Len(arrived)
    /\ StrictlyOrdered(handled)

\* C9 witness: an event was processed, the next receive was interrupted by a
\* reload, and the event that arrived after it was processed once.
C9_Witness ==
    /\ pc = "recv"
    /\ reloads = 1
    /\ lastRecv.prevErr = EINTR
    /\ arrived = <<InUid, InUid>>
    /\ handled = <<[src |-> 1, off |-> 0], [src |-> 2, off |-> 0]>>
    /\ Len(calls) = 1

\* C10: once cgre_catch_term has run the process has exited with the success
\* status, the log sink was closed once if it is a file of its own and not at
\* all otherwise, and from then on no frame is passed to the decoder, no
\* record opened and no request issued.
C10_TerminateWins ==
    /\ [](termSeen =>
            /\ pc = "terminated"
            /\ exitStatus = EXIT_SUCCESS
            /\ logCloses = IF logfile = "file" THEN 1 ELSE 0)
    /\ [][termSeen => UNCHANGED <<pc, handled, requests, lookups, calls>>]_vars
    /\ []((handlers /\ pc \in {"recv", "frame"}) => ENABLED Terminate)

\* C10 witness: the terminate interruption came after the first of two
\* frames; the second is still in the buffer and the log file was closed.
C10_Witness ==
    /\ pc = "terminated"
    /\ arrived = <<InTwo>>
    /\ handled = <<[src |-> 1, off |-> 0]>>
    /\ nlh = EvLen
    /\ NLMSG_OK(buff, nlh, recv_len)
    /\ logfile = "file"
    /\ logCloses = 1
    /\ exitStatus = EXIT_SUCCESS

\* the requests of a batch: what was passed to the policy engine, in order
CallsOf(log) == [i \in 1..Len(log) |-> log[i].call]

\* C11 (as claimed): when a well-formed buffer has been processed, delivered
\* again and processed again, and the lookups of the second pass opened the
\* same status records with the same outcome as those of the first, the
\* second pass issued the same sequence of requests as the first.
C11_ReplaySameRequests ==
    (/\ pc = "recv"
     /\ prevBatch.replay
     /\ lastRecv.way = "process"
     /\ WellFormed(arrived[lastRecv.src])
     /\ lookups = prevBatch.lookups)
        => CallsOf(calls) = CallsOf(prevBatch.calls)

\* C12 (as claimed): a no-op frame is passed over.  The frame loop never looks
\* at the same frame a second time (each iteration that goes on moves the
\* cursor), and when the loop is back at the receive after a batch that began
\* with a no-op frame, the frame that follows the no-op frame, at the byte
\* offset of the no-op frame's declared length, was passed to the decoder.
C12_NoopSkipped ==
    /\ spins = 0
    /\ (/\ InBatch
        /\ pc = "recv"
        /\ lastRecv.way = "process"
        /\ Len(arrived[lastRecv.src].frames) >= 2
        /\ arrived[lastRecv.src].frames[1].type = NLMSG_NOOP)
          => \E i \in 1..Len(handled) :
                handled[i] = [src |-> lastRecv.src,
                              off |-> arrived[lastRecv.src].frames[1].len]

\* C13 (as claimed): processing of a batch ends: whenever the frame loop is
\* running, it is later left (for the receive, or because the process ends).
C13_BatchTerminates == (pc = "frame") ~> (pc # "frame")

\* C14: after a receive that returned zero or a negative value (-1 is kept
\* in the unsigned recv_len as the largest value) the buffer is all zero, no
\* frame of it was passed to the decoder, no record was opened and no request
\* issued, the loop was not left, and if the frame loop was entered it finds
\* no frame, so that its only step is back to the receive.
C14_EmptyReceiveRetried ==
    (lastRecv.way # "none" /\ lastRecv.rv <= 0) =>
        /\ buff = ZeroBuff
        /\ \A i \in 1..Len(handled) : handled[i].src # lastRecv.src
        /\ lookups = << >>
        /\ calls = << >>
        /\ msgRet = 0
        /\ pc \in {"recv", "frame", "terminated"}
        /\ pc = "frame" =>
              /\ ~NLMSG_OK(buff, nlh, recv_len)
              /\ ENABLED BatchEnd
        /\ lastRecv.rv < 0 => recv_len = SizeMod + lastRecv.rv
        /\ lastRecv.rv = 0 => (recv_len = 0 /\ pc # "frame")

\* C14 witness: an event was processed, then recvfrom() failed; the -1 went
\* through both tests on recv_len into the frame loop, which found the
\* buffer cleared, and the loop is back at the receive.
C14_Witness ==
    /\ pc = "recv"
    /\ arrived = <<InUid, InOverflow>>
    /\ lastRecv.src = 2
    /\ lastRecv.way = "process"
    /\ recv_len = SizeMod - 1
    /\ buff = ZeroBuff
    /\ handled = <<[src |-> 1, off |-> 0]>>

\* C15 (as claimed): while a batch of received bytes is processed the cursor and the remaining
\* length add up to the bytes received (the remaining length went down by
\* what the cursor went up, and never below zero), and every frame passed to
\* the decoder declared a length of at least a header, lay inside the bytes
\* received, and held every byte the decoder read of it.
C15_NoOverRead ==
    (InBatch /\ lastRecv.way = "process" /\ lastRecv.rv > 0) =>
        /\ recv_len <= lastRecv.rv
        /\ nlh + recv_len = lastRecv.rv
        /\ \A i \in 1..Len(handled) :
              handled[i].src = lastRecv.src =>
                  LET f == InputFrame(lastRecv.src, handled[i].off)
                  IN  /\ f.len >= NlHdrLen
                      /\ f.off + f.len <= lastRecv.rv
                      /\ DecoderReads(f) <= f.len

\* C16: no frame is passed to the decoder twice and no frame gets more than
\* one request: the frames handled and the frames requested for are each in
\* strictly increasing order, the calls of the current batch are for
\* different frames, each one passed to the decoder; and a request is issued
\* only in the step that passes its frame to the decoder, one at most, so
\* that none is made again or put off to a later iteration, whatever the
\* policy engine returned.
C16_OneCallPerFrame ==
    /\ [](/\ StrictlyOrdered(handled)
          /\ StrictlyOrdered(requests)
          /\ \A i, j \in 1..Len(calls) :
                i < j => calls[i].off < calls[j].off
          /\ InBatch =>
                \A i \in 1..Len(calls) :
                    \E k \in 1..Len(handled) :
                        handled[k] = [src |-> lastRecv.src,
                                      off |-> calls[i].off])
    /\ [][/\ Len(requests') <= Len(requests) + 1
          /\ Len(calls') <= Len(calls) + 1
          /\ requests' # requests =>
                /\ Len(handled') = Len(handled) + 1
                /\ requests' = Append(requests, handled'[Len(handled')])
                /\ Len(calls') = Len(calls) + 1]_vars

\* C16 witness: the request for the first of two frames failed with code 5;
\* the cursor is on the second frame and there is one call, one request.
C16_Witness ==
    /\ pc = "frame"
    /\ arrived = <<InTwo>>
    /\ nlh = EvLen
    /\ msgRet = 5
    /\ Len(calls) = 1
    /\ requests = <<[src |-> 1, off |-> 0]>>
    /\ handled = <<[src |-> 1, off |-> 0]>>

\* C17: a step in which cgre_flash_rules runs changes the count of rule
\* reloads and nothing of the main loop: not where main is, not the socket
\* or the number of times it was closed, not the receive buffer, the cursor
\* or the remaining length, not the log sink or the number of times it was
\* closed, and nothing of what was received, decoded or requested; and while
\* the loop runs, reloads or not, the socket is open and the log sink is
\* open.
C17_ReloadLeavesLoop ==
    /\ [][reloads' # reloads =>
            /\ reloads' = reloads + 1
            /\ UNCHANGED <<pc, ret, exitStatus, sk_nl, sockCloses, buff, nlh,
                           recv_len, spins, msgRet, logfile, logCloses,
                           handlers, arrived, lastRecv, handled, requests,
                           lookups, calls>>]_vars
    /\ []((reloads > 0 /\ pc \in {"recv", "frame"}) =>
            /\ sk_nl = "open"
            /\ sockCloses = 0
            /\ logfile # "null"
            /\ logCloses = 0)

\* C17 witness: the rules were reloaded and the loop is in the middle of a
\* batch of two frames, the first decoded, the cursor on the second, the
\* buffer as received, the socket and the log file open.
C17_Witness ==
    /\ reloads = 1
    /\ pc = "frame"
    /\ arrived = <<InTwo>>
    /\ buff = InTwo.frames
    /\ nlh = EvLen
    /\ recv_len = EvLen
    /\ handled = <<[src |-> 1, off |-> 0]>>
    /\ sk_nl = "open"
    /\ logfile = "file"
    /\ logCloses = 0

\* C18 (as claimed): main goes on to install the signal handlers only when
\* cgre_start_daemon reported no error; with a result above zero (which main
\* keeps in ret) it is never at the installation of the handlers, nor beyond
\* it with the log sink that a failed fork leaves unset.
C18_StartErrorExits ==
    /\ pc = "signals" => ~(ret > 0)
    /\ pc # "crashed"

\* C19: once cgre_create_netlink_socket_process_msg has returned with the
\* socket created (main has then returned too), the socket is closed, close()
\* was called once, and the value returned is -1, not a success code; the
\* socket is never closed more than once, and is closed only by that return:
\* from the bind to the frame loop it is open and was never closed.
C19_ReturnsClosedMinusOne ==
    /\ (pc = "exited" /\ sk_nl # "none") =>
          /\ sk_nl = "closed"
          /\ sockCloses = 1
          /\ ret = 0 - 1
          /\ exitStatus # EXIT_SUCCESS
    /\ sockCloses <= 1
    /\ sk_nl = "closed" => (pc = "exited" /\ sockCloses = 1)
    /\ pc \in {"bind", "send", "recv", "frame"} =>
          (sk_nl = "open" /\ sockCloses = 0)

\* C19 witness: the loop was left on a negative result of cgre_handle_msg;
\* the socket was closed once and -1 returned.
C19_Witness ==
    /\ pc = "exited"
    /\ arrived = <<InUid>>
    /\ msgRet = 0 - 1
    /\ chanFail = "none"
    /\ sk_nl = "closed"
    /\ sockCloses = 1
    /\ ret = 0 - 1

=============================================================================
